---- MODULE Spec2Model ----
(***************************************************************************)
(* APIClient (src/__init__.py): a client object holding api_key, base_url  *)
(* and precomputed headers, and its generator method `generate`, which     *)
(* posts one streaming HTTP request and decodes the JSON-lines body into   *)
(* events.  The generator is a coroutine driven by its caller: it runs     *)
(* only while the caller is inside next() (or close()), and is suspended   *)
(* at one of its four yield statements in between.                         *)
(***************************************************************************)
EXTENDS Integers, Sequences, FiniteSets, TLC

VARIABLES
    api_key,    \* self.api_key
    base_url,   \* self.base_url
    headers,    \* self.headers
    calls,      \* the argument records of the generate calls made so far
    previous,   \* of the call before the current one, if any: its arguments,
                \* the requests it made and the client's fields as it left them
    pc,         \* where the generator of the current call stands
    text,       \* local `text` of generate
    img,        \* parameter/local `img` of generate (rebound at line 57/61)
    sent,       \* the requests.post calls made by the current call
    response,   \* the streaming response: "none", "open" or "closed"
    stream,     \* the lines response.iter_lines() has to deliver
    pos,        \* how many of them the for loop has taken
    events,     \* the values next() has handed to the caller, in order
    raised,     \* the exception next() has let through to the caller
    http,       \* how the HTTP exchange went: "none", "exception" (post raised),
                \* "bad_status", "ok", or "broken" (the body read raised)
    closeLog    \* one record per close() of the generator

vars == <<api_key, base_url, headers, calls, previous, pc, text, img, sent, response,
          stream, pos, events, raised, http, closeLog>>

----------------------------------------------------------------------------
(* Bounds of the model.                                                    *)

MaxLines == 3   \* longest response body, in lines
MaxCalls == 2   \* generate calls made on one client

----------------------------------------------------------------------------
(* Python values.                                                          *)

None == "None"              \* Python's None
Empty == ""                 \* the empty string
Missing == "<missing>"      \* a key that a dict / JSON object does not hold
NoException == "no exception"

\* `not x` for x : str | None
Falsy(x) == x = None \/ x = Empty

\* dict.get(key): None when the key is missing
Get(v) == IF v = Missing THEN None ELSE v

DEFAULT_MAX_TOKENS == 16234
DEFAULT_TIMEOUT == 5

----------------------------------------------------------------------------
(* Inputs: constructor arguments, generate arguments, response bodies.     *)

ApiKeys == {Empty, "key"}
BaseUrls == {Empty, "url"}

Args == [prompt : {Empty, "prompt"},
         img : {None, "pic"},
         role : {"user"},
         max_tokens : {DEFAULT_MAX_TOKENS},
         timeout : {DEFAULT_TIMEOUT},
         session_id : {None, "sid"},
         model_id : {None, "mid"}]

\* json_data.get("delta"): None ("null": key missing or JSON null) or an object
NoDelta == [kind |-> "null", text |-> Missing, image |-> Missing]
DeltaObj(t, i) == [kind |-> "object", text |-> t, image |-> i]

\* One element of response.iter_lines().
\*   raw = "blank"  : b"" (falsy)
\*   raw = "bad"    : bytes that are not UTF-8 or not JSON
\*   raw = "nonobj" : JSON that is not an object (no .get)
\*   raw = "obj"    : a JSON object with the fields below
Line(raw, status, delta, step, tokens, cost, cpm) ==
    [raw |-> raw, status |-> status, delta |-> delta, step |-> step,
     tokens |-> tokens, cost |-> cost, cost_per_mtk |-> cpm]

BlankLine == Line("blank", Missing, NoDelta, 0, 0, 0, 0)
BadLine == Line("bad", Missing, NoDelta, 0, 0, 0, 0)
NonObjLine == Line("nonobj", Missing, NoDelta, 0, 0, 0, 0)
StatusLine(s) == Line("obj", s, NoDelta, 0, 0, 0, 0)
GenLine(d, s, t) == Line("obj", "generating", d, s, t, 0, 0)
CompletedLine(c, m) == Line("obj", "completed", NoDelta, 0, 0, c, m)

Lines ==
    {BlankLine, BadLine, NonObjLine,
     StatusLine("error"), StatusLine("initialized"), StatusLine("resumed"),
     StatusLine("queued"), StatusLine(Missing),
     CompletedLine(10, 2), CompletedLine(7, 1),
     GenLine(NoDelta, 1, 3),
     GenLine(DeltaObj("hi", Missing), 1, 3),
     GenLine(DeltaObj(Missing, "im"), 2, 4),
     GenLine(DeltaObj("yo", "im2"), 3, 5)}

RECURSIVE SeqsUpTo(_, _)
SeqsUpTo(S, n) ==
    IF n = 0 THEN {<<>>}
    ELSE LET shorter == SeqsUpTo(S, n - 1)
         IN  shorter \cup {Append(s, x) : s \in {t \in shorter : Len(t) = n - 1}, x \in S}

Streams == SeqsUpTo(Lines, MaxLines)

\* What requests.post / raise_for_status / iter_lines can raise.
TransportExceptions == {"ConnectionError", "Timeout"}

----------------------------------------------------------------------------
(* Events: the values the generator yields.                                *)

Failure == [kind |-> "Failure"]                                  \* None
Delta(t, i, s, k) ==                                             \* (text, img), (steps, tks)
    [kind |-> "Delta", text |-> t, image |-> i, step |-> s, tokens |-> k]
Completion(c, m) ==                                              \* cost, cost_per_mtk
    [kind |-> "Completion", cost |-> c, cost_per_mtk |-> m]

----------------------------------------------------------------------------
(* APIClient.__init__                                                      *)

Headers(key) ==
    [Authorization |-> "Bearer " \o key, ContentType |-> "application/json"]

Init ==
    /\ api_key \in ApiKeys
    /\ base_url \in BaseUrls
    /\ headers = Headers(api_key)
    /\ calls = <<>>
    /\ previous = <<>>
    /\ pc = "none"
    /\ text = None
    /\ img = None
    /\ sent = <<>>
    /\ response = "none"
    /\ stream = <<>>
    /\ pos = 0
    /\ events = <<>>
    /\ raised = NoException
    /\ http = "none"
    /\ closeLog = <<>>

----------------------------------------------------------------------------
(* APIClient.generate: the pieces of its body.                             *)

\* The arguments of the current call.
args == calls[Len(calls)]

\* Mutant: the return of lines 29-30 is missing.
PreconditionsHold_NoModelCheck(key, url, a) ==
    /\ ~Falsy(key)
    /\ ~Falsy(a.prompt)
    /\ ~Falsy(url)

\* Mutant: the model_id test stands outside the `if not session_id` branch.
PreconditionsHold_AlwaysNeedsModel(key, url, a) ==
    /\ ~Falsy(key)
    /\ ~Falsy(a.prompt)
    /\ ~Falsy(url)
    /\ ~Falsy(a.model_id)

\* Lines 19-24 and 27-30: the four early returns before the request.
PreconditionsHold(key, url, a) ==
    /\ ~Falsy(key)
    /\ ~Falsy(a.prompt)
    /\ ~Falsy(url)
    /\ (Falsy(a.session_id) => ~Falsy(a.model_id))

\* Mutant: model_id is put into the payload whenever it was given.
BuildPayload_KeepsModelId(a) ==
    [type |-> IF Falsy(a.session_id) THEN "new" ELSE "resume",
     model_id |-> IF Falsy(a.model_id) THEN Missing ELSE a.model_id,
     session_id |-> IF Falsy(a.session_id) THEN Missing ELSE a.session_id,
     input |-> a.prompt,
     image |-> IF Falsy(a.img) THEN Missing ELSE a.img,
     role |-> a.role,
     max_tokens |-> a.max_tokens,
     timeout |-> a.timeout]

\* Lines 26-40: the payload dict; a key the code does not set is Missing.
BuildPayload(a) ==
    [type |-> IF Falsy(a.session_id) THEN "new" ELSE "resume",
     model_id |-> IF Falsy(a.session_id) THEN a.model_id ELSE Missing,
     session_id |-> IF Falsy(a.session_id) THEN Missing ELSE a.session_id,
     input |-> a.prompt,
     image |-> IF Falsy(a.img) THEN Missing ELSE a.img,
     role |-> a.role,
     max_tokens |-> a.max_tokens,
     timeout |-> a.timeout]

\* Line 41: what one requests.post call is given.
Request(url, a, h) == [url |-> url, json |-> BuildPayload(a), headers |-> h]

\* The parameters as lines 26-40 read them: img is the local variable.
params == [args EXCEPT !.img = img]

\* Line 71: a bare `except:` catches every exception, GeneratorExit included.
InnerHandlerCatches(exc) == TRUE

\* Mutant: `except requests.ConnectionError:` in place of the bare except.
OuterHandlerCatches_ConnectionErrorOnly(exc) == exc = "ConnectionError"

\* Line 74: a bare `except:` again.
OuterHandlerCatches(exc) == TRUE

\* The yield statements, by line number.
Yields == {"y50", "y64", "y69", "y72"}

\* The yields of lines 50, 64 and 69 stand in the body of the inner try
\* (lines 45-70); the yield of line 72 stands in its handler.
InInnerTry(at) == at \in {"y50", "y64", "y69"}

\* Mutants: the break of line 70, of line 51, of line 73 is a continue.
AfterYield_CompletedContinues(at) == IF at \in {"y64", "y69"} THEN "continue" ELSE "break"
AfterYield_ErrorContinues(at) == IF at \in {"y64", "y50"} THEN "continue" ELSE "break"
AfterYield_HandlerContinues(at) == IF at \in {"y64", "y72"} THEN "continue" ELSE "break"

\* Mutant: every break is a continue.
AfterYield_NeverBreaks(at) == "continue"

\* Lines 51, 65, 70, 73: what follows each yield when the caller resumes.
AfterYield(at) == IF at = "y64" THEN "continue" ELSE "break"

Skip(t, i) == [kind |-> "skip", at |-> "none", ev |-> Failure, exc |-> NoException,
               text |-> t, img |-> i]
YieldAt(at, ev, t, i) == [kind |-> "yield", at |-> at, ev |-> ev, exc |-> NoException,
                          text |-> t, img |-> i]
RaiseExc(exc, t, i) == [kind |-> "raise", at |-> "none", ev |-> Failure, exc |-> exc,
                        text |-> t, img |-> i]

\* Mutant: lines 56-57 (text = None, img = None) are missing.
Generating_NoReset(line, t, i) ==
    IF line.delta.kind = "null"
    THEN [kind |-> "raise", at |-> "none", ev |-> [kind |-> "Failure"],
          exc |-> "TypeError", text |-> t, img |-> i]
    ELSE LET t2 == IF line.delta.text # Missing THEN Get(line.delta.text) ELSE t
             i2 == IF line.delta.image # Missing THEN Get(line.delta.image) ELSE i
         IN  [kind |-> "yield", at |-> "y64",
              ev |-> [kind |-> "Delta", text |-> t2, image |-> i2,
                      step |-> line.step, tokens |-> line.tokens],
              exc |-> NoException, text |-> t2, img |-> i2]

\* Mutant: line 55 reads json_data.get("delta", {}) and a null delta counts
\* as an empty object.
Generating_NullDeltaAsEmpty(line, t, i) ==
    LET t2 == IF line.delta.text # Missing THEN Get(line.delta.text) ELSE None
        i2 == IF line.delta.image # Missing THEN Get(line.delta.image) ELSE None
    IN  YieldAt("y64", Delta(t2, i2, line.step, line.tokens), t2, i2)

\* Lines 54-65: the "generating" branch.  text and img are reset to None, then
\* `"text" in delta` raises TypeError when delta is None.
Generating(line, t, i) ==
    IF line.delta.kind = "null"
    THEN RaiseExc("TypeError", None, None)
    ELSE LET t2 == IF line.delta.text # Missing THEN Get(line.delta.text) ELSE None
             i2 == IF line.delta.image # Missing THEN Get(line.delta.image) ELSE None
         IN  YieldAt("y64", Delta(t2, i2, line.step, line.tokens), t2, i2)

\* Mutant: a final `else: yield None; break` for a status the chain does not know.
TryBody_UnknownStatusFails(line, t, i) ==
    IF line.raw = "bad" THEN RaiseExc("ValueError", t, i)
    ELSE IF line.raw = "nonobj" THEN RaiseExc("AttributeError", t, i)
    ELSE LET status == Get(line.status)
         IN  IF status = "error" THEN YieldAt("y50", Failure, t, i)
             ELSE IF status = "initialized" \/ status = "resumed" THEN Skip(t, i)
             ELSE IF status = "generating" THEN Generating(line, t, i)
             ELSE IF status = "completed"
                  THEN YieldAt("y69", Completion(line.cost, line.cost_per_mtk), t, i)
             ELSE YieldAt("y72", Failure, t, i)

\* Lines 46-70: the body of the inner try for one non-blank line.
TryBody(line, t, i) ==
    IF line.raw = "bad" THEN RaiseExc("ValueError", t, i)             \* 46-47
    ELSE IF line.raw = "nonobj" THEN RaiseExc("AttributeError", t, i) \* 48
    ELSE LET status == Get(line.status)
         IN  IF status = "error" THEN YieldAt("y50", Failure, t, i)
             ELSE IF status = "initialized" \/ status = "resumed" THEN Skip(t, i)
             ELSE IF status = "generating" THEN Generating(line, t, i)
             ELSE IF status = "completed"
                  THEN YieldAt("y69", Completion(line.cost, line.cost_per_mtk), t, i)
             ELSE Skip(t, i)

\* Mutant: the `if line:` of line 44 is missing, so json.loads gets "".
Iteration_NoBlankCheck(line, t, i) ==
    LET b == IF line.raw = "blank" THEN RaiseExc("ValueError", t, i)
             ELSE TryBody(line, t, i)
    IN  IF b.kind = "raise" /\ InnerHandlerCatches(b.exc)
        THEN YieldAt("y72", Failure, b.text, b.img)
        ELSE b

\* Lines 44-73: one iteration of the for loop, up to its yield, its continue
\* or an exception the inner handler lets through.
Iteration(line, t, i) ==
    IF line.raw = "blank" THEN Skip(t, i)                            \* 44
    ELSE LET b == TryBody(line, t, i)
         IN  IF b.kind = "raise" /\ InnerHandlerCatches(b.exc)
             THEN YieldAt("y72", Failure, b.text, b.img)              \* 71-72
             ELSE b

----------------------------------------------------------------------------
(* The caller's operations on the client and on the generator, and the     *)
(* steps the generator runs while the caller waits inside next().          *)

callerVars == <<api_key, base_url, headers, calls, previous>>

\* generate(...) is called: a generator object is made and none of the body
\* runs yet; img is bound to the argument.
Generate(a) ==
    /\ pc = "none"
    /\ calls' = Append(calls, a)
    /\ pc' = "start"
    /\ img' = a.img
    /\ UNCHANGED <<api_key, base_url, headers, previous, text, sent, response,
                   stream, pos, events, raised, closeLog, http>>

\* An exception leaves the `with` block (or requests.post itself) and reaches
\* the outer handler, lines 74-75: the generator returns, or lets it through.
Unwind(exc) ==
    /\ pc' = "done"
    /\ raised' = IF OuterHandlerCatches(exc) THEN raised ELSE exc

\* First next(): lines 19-30 return before any request.
StartRejected ==
    /\ pc = "start"
    /\ ~PreconditionsHold(api_key, base_url, args)
    /\ pc' = "done"
    /\ UNCHANGED <<callerVars, text, img, sent, response, stream, pos, events,
                   raised, closeLog, http>>

\* First next(): requests.post raises (line 41), no response exists.
StartPostRaises(exc) ==
    /\ pc = "start"
    /\ PreconditionsHold(api_key, base_url, args)
    /\ sent' = Append(sent, Request(base_url, params, headers))
    /\ Unwind(exc)
    /\ http' = "exception"
    /\ UNCHANGED <<callerVars, text, img, response, stream, pos, events, closeLog>>

\* First next(): the server answers with a non-success status;
\* raise_for_status (line 42) raises inside the `with`, which closes the response.
StartBadStatus ==
    /\ pc = "start"
    /\ PreconditionsHold(api_key, base_url, args)
    /\ sent' = Append(sent, Request(base_url, params, headers))
    /\ response' = "closed"
    /\ Unwind("HTTPError")
    /\ http' = "bad_status"
    /\ UNCHANGED <<callerVars, text, img, stream, pos, events, closeLog>>

\* First next(): the server answers with success and some body of lines;
\* the generator enters the for loop of line 43.
StartOk ==
    /\ pc = "start"
    /\ PreconditionsHold(api_key, base_url, args)
    /\ sent' = Append(sent, Request(base_url, params, headers))
    /\ response' = "open"
    /\ stream' \in Streams
    /\ pc' = "loop"
    /\ http' = "ok"
    /\ UNCHANGED <<callerVars, text, img, pos, events, raised, closeLog>>

\* Line 43 delivers the next line and lines 44-73 handle it: the generator
\* yields an event to the caller, or goes on to the next line.
ReadLine ==
    /\ pc = "loop"
    /\ pos < Len(stream)
    /\ pos' = pos + 1
    /\ LET r == Iteration(stream[pos + 1], text, img)
       IN  /\ text' = r.text
           /\ img' = r.img
           /\ CASE r.kind = "skip" ->
                     /\ pc' = "loop"
                     /\ UNCHANGED <<events, response, raised>>
                [] r.kind = "yield" ->
                     /\ pc' = r.at
                     /\ events' = Append(events, r.ev)
                     /\ UNCHANGED <<response, raised>>
                [] r.kind = "raise" ->
                     /\ response' = "closed"
                     /\ Unwind(r.exc)
                     /\ UNCHANGED events
    /\ UNCHANGED <<callerVars, sent, stream, closeLog, http>>

\* Mutant: a for-else that yields None when the body ends without a break.
StreamEnd_SynthesizesFailure ==
    /\ pc = "loop"
    /\ pos = Len(stream)
    /\ events' = Append(events, Failure)
    /\ pc' = "y72"
    /\ UNCHANGED <<callerVars, text, img, sent, response, stream, pos, raised, closeLog, http>>

\* Line 43: the body is exhausted; the `with` closes the response, line 76 returns.
StreamEnd ==
    /\ pc = "loop"
    /\ pos = Len(stream)
    /\ response' = "closed"
    /\ pc' = "done"
    /\ UNCHANGED <<callerVars, text, img, sent, stream, pos, events, raised, closeLog, http>>

\* Mutant: the inner try encloses the for statement, so its handler yields
\* None for an exception of iter_lines.
ReadRaises_EmitsFailure(exc) ==
    /\ pc = "loop"
    /\ events' = Append(events, Failure)
    /\ pc' = "y72"
    /\ http' = "broken"
    /\ UNCHANGED <<callerVars, text, img, sent, response, stream, pos, raised, closeLog>>

\* Line 43: iter_lines raises while reading the body (outside the inner try).
ReadRaises(exc) ==
    /\ pc = "loop"
    /\ response' = "closed"
    /\ Unwind(exc)
    /\ http' = "broken"
    /\ UNCHANGED <<callerVars, text, img, sent, stream, pos, events, closeLog>>

\* A later next(): the generator resumes after its yield; `continue` goes back
\* to line 43, `break` leaves the loop and the `with`, and line 76 returns.
Resume ==
    /\ pc \in Yields
    /\ IF AfterYield(pc) = "continue"
       THEN /\ pc' = "loop"
            /\ UNCHANGED response
       ELSE /\ pc' = "done"
            /\ response' = "closed"
    /\ UNCHANGED <<callerVars, text, img, sent, stream, pos, events, raised, closeLog, http>>

\* close() on a generator that never ran: it is marked finished, no code runs.
CloseUnstarted ==
    /\ pc = "start"
    /\ pc' = "done"
    /\ closeLog' = Append(closeLog, [at |-> pc, result |-> "ok", yielded |-> <<>>,
                                     response |-> response])
    /\ UNCHANGED <<callerVars, text, img, sent, response, stream, pos, events, raised, http>>

\* close() on a suspended generator: GeneratorExit is raised at the yield.
\* Inside the inner try the handler of line 71 takes it and line 72 yields
\* None, which close() answers with RuntimeError, the generator staying
\* suspended at line 72 with the response open.  Otherwise it leaves the
\* `with` (closing the response) and ends the generator.
CloseSuspended ==
    /\ pc \in Yields
    /\ IF InInnerTry(pc) /\ InnerHandlerCatches("GeneratorExit")
       THEN /\ pc' = "y72"
            /\ closeLog' = Append(closeLog, [at |-> pc, result |-> "RuntimeError",
                                             yielded |-> <<Failure>>,
                                             response |-> response])
            /\ UNCHANGED response
       ELSE /\ pc' = "done"
            /\ response' = "closed"
            /\ closeLog' = Append(closeLog, [at |-> pc, result |-> "ok",
                                             yielded |-> <<>>,
                                             response |-> "closed"])
    /\ UNCHANGED <<callerVars, text, img, sent, stream, pos, events, raised, http>>

Next ==
    \/ \E a \in Args : Generate(a)
    \/ StartRejected
    \/ \E exc \in TransportExceptions : StartPostRaises(exc)
    \/ StartBadStatus
    \/ StartOk
    \/ ReadLine
    \/ StreamEnd
    \/ \E exc \in TransportExceptions : ReadRaises(exc)
    \/ Resume
    \/ CloseUnstarted
    \/ CloseSuspended

Spec == Init /\ [][Next]_vars

\* Mutant: img lives on across calls (kept on the client, not a parameter),
\* so the new call starts with what line 57/61 last bound it to.
GenerateAgain_KeepsImg ==
    /\ pc \in {"start", "done"} \cup Yields
    /\ Len(calls) < MaxCalls
    /\ previous' = <<[args |-> args, sent |-> sent,
                       client |-> <<api_key, base_url, headers>>]>>
    /\ calls' = Append(calls, args)
    /\ pc' = "start"
    /\ text' = None
    /\ sent' = <<>>
    /\ response' = "none"
    /\ stream' = <<>>
    /\ pos' = 0
    /\ events' = <<>>
    /\ raised' = NoException
    /\ http' = "none"
    /\ closeLog' = <<>>
    /\ UNCHANGED <<api_key, base_url, headers, img>>

\* The caller calls generate again on the same client with the arguments of
\* the call before, wherever that call's generator stands (not yet started,
\* suspended after an event, or finished; never while next() is running, the
\* caller being single-threaded).  The earlier generator is dropped; the new
\* one has its own parameters and locals, and nothing of the client changes.
GenerateAgain ==
    /\ pc \in {"start", "done"} \cup Yields
    /\ Len(calls) < MaxCalls
    /\ previous' = <<[args |-> args, sent |-> sent,
                       client |-> <<api_key, base_url, headers>>]>>
    /\ calls' = Append(calls, args)
    /\ pc' = "start"
    /\ text' = None
    /\ img' = args.img
    /\ sent' = <<>>
    /\ response' = "none"
    /\ stream' = <<>>
    /\ pos' = 0
    /\ events' = <<>>
    /\ raised' = NoException
    /\ http' = "none"
    /\ closeLog' = <<>>
    /\ UNCHANGED <<api_key, base_url, headers>>

NextReuse == Next \/ GenerateAgain

SpecReuse == Init /\ [][NextReuse]_vars

----------------------------------------------------------------------------
(* Vocabulary of the properties below.                                     *)

Last(s) == s[Len(s)]
Front(s) == SubSeq(s, 1, Len(s) - 1)

\* The lines the for loop has taken so far.
Consumed == SubSeq(stream, 1, pos)

IsFailure(e) == e.kind = "Failure"
IsCompletion(e) == e.kind = "Completion"
IsDelta(e) == e.kind = "Delta"

HasStatus(l, s) == l.raw = "obj" /\ l.status = s
IsGeneratingLine(l) == HasStatus(l, "generating")

\* A call that breaks one of the stated preconditions.
PreconditionViolated ==
    \/ api_key = Empty
    \/ args.prompt = Empty
    \/ base_url = Empty
    \/ (args.session_id = None /\ args.model_id = None)

\* The caller has advanced the generator at least once.
Advanced ==
    /\ pc \notin {"none", "start"}
    /\ (closeLog = <<>> \/ closeLog[1].at # "start")

\* The Delta a generating line stands for: the keys its delta object holds,
\* an absent value for the others.
KeyOrAbsent(v) == IF v = Missing THEN None ELSE v
DeltaOfLine(l) ==
    Delta(KeyOrAbsent(l.delta.text), KeyOrAbsent(l.delta.image), l.step, l.tokens)
DeltasOf(s) ==
    LET gen == SelectSeq(s, IsGeneratingLine)
    IN  [k \in 1..Len(gen) |-> DeltaOfLine(gen[k])]

\* The lines that end the sequence as the decode contract lists them: status
\* error or completed, or a line that does not decode to a JSON object ...
StopsAsListed(l) ==
    l.raw \in {"bad", "nonobj"} \/ HasStatus(l, "error") \/ HasStatus(l, "completed")
\* ... and as the code has it: also a generating line without a delta object.
Stops(l) ==
    \/ StopsAsListed(l)
    \/ (IsGeneratingLine(l) /\ l.delta.kind = "null")

\* The lines of s before its first line of the set I of indices.
FirstOf(I, n) == IF I = {} THEN n + 1 ELSE CHOOSE k \in I : \A j \in I : k <= j
BeforeListedStop(s) ==
    SubSeq(s, 1, FirstOf({k \in 1..Len(s) : StopsAsListed(s[k])}, Len(s)) - 1)
BeforeStop(s) ==
    SubSeq(s, 1, FirstOf({k \in 1..Len(s) : Stops(s[k])}, Len(s)) - 1)

\* The generator ran to its end on its own: no transport failure, no close().
RanToEnd == pc = "done" /\ http = "ok" /\ closeLog = <<>>

----------------------------------------------------------------------------
(* C1 *)

\* C1: a call with an empty api_key, prompt or base_url, or with neither
\* session_id nor model_id, yields no event at all (no Failure either), lets no
\* exception out and issues no HTTP request, however far it is advanced.
C1_RejectedCallIsSilent ==
    (pc # "none" /\ PreconditionViolated) =>
        /\ events = <<>>
        /\ sent = <<>>
        /\ response = "none"
        /\ http = "none"
        /\ raised = NoException

\* A call with valid key, prompt and url but neither session_id nor model_id
\* has been advanced to its end.
C1_Witness ==
    /\ pc = "done"
    /\ closeLog = <<>>
    /\ api_key # Empty /\ base_url # Empty /\ args.prompt # Empty
    /\ args.session_id = None /\ args.model_id = None

----------------------------------------------------------------------------
(* C2 *)

\* C2 as stated: with error, completed and undecodable lines as the only
\* terminating lines, the events of the lines before the first terminating line
\* are one Delta per generating line, in order, and nothing else.
C2_AsStated ==
    LET pre == BeforeListedStop(Consumed)
        d == DeltasOf(pre)
    IN  /\ Len(events) >= Len(d)
        /\ SubSeq(events, 1, Len(d)) = d
        /\ (Len(pre) = pos => events = d)
        /\ (RanToEnd => (Len(pre) < pos \/ pos = Len(stream)))

\* C2, amended: a generating line whose delta is missing or null is a
\* terminating line too (reading it raises), beside the lines with status
\* error or completed and the lines that do not decode to a JSON object.
\* The events of the lines before the first of them are one Delta per
\* generating line, in the order of the lines; initialized, resumed and blank
\* lines add nothing and the sequence goes on after them: it ends by itself
\* only at a terminating line or at the end of the body.
C2_DeltasInOrder ==
    LET pre == BeforeStop(Consumed)
        d == DeltasOf(pre)
    IN  /\ Len(events) >= Len(d)
        /\ SubSeq(events, 1, Len(d)) = d
        /\ (Len(pre) = pos => events = d)
        /\ (RanToEnd => (Len(pre) < pos \/ pos = Len(stream)))

\* A resumed line, then two generating lines, all three consumed and the two
\* Deltas delivered.
C2_Witness ==
    /\ pos = 3
    /\ HasStatus(stream[1], "resumed")
    /\ events = <<DeltaOfLine(stream[2]), DeltaOfLine(stream[3])>>
    /\ events[1] # events[2]

----------------------------------------------------------------------------
(* C3 *)

\* C3: a completed line is the last line taken from the body; it puts exactly
\* one Completion with that line's cost and cost_per_mtk at the end of the
\* events, and the generator never goes back to reading.
C3_CompletedEndsSequence ==
    \A k \in 1..pos :
        HasStatus(stream[k], "completed") =>
            /\ k = pos
            /\ pc \in {"y69", "y72", "done"}
            /\ events # <<>>
            /\ Last(events) = Completion(stream[k].cost, stream[k].cost_per_mtk)
            /\ Len(SelectSeq(events, IsCompletion)) = 1
            /\ SelectSeq(events, IsFailure) = <<>>

\* A Delta, then a completed line with a further line behind it, and the
\* caller has advanced the sequence to its end.
C3_Witness ==
    /\ RanToEnd
    /\ pos = 2 /\ Len(stream) = 3
    /\ HasStatus(stream[2], "completed")
    /\ IsGeneratingLine(stream[3])
    /\ Len(events) = 2

----------------------------------------------------------------------------
(* C4 *)

\* C4: a line with status error is the last line taken from the body; it puts
\* exactly one Failure at the end of the events, and the generator never goes
\* back to reading, whatever lines follow.
C4_ErrorEndsSequence ==
    \A k \in 1..pos :
        HasStatus(stream[k], "error") =>
            /\ k = pos
            /\ pc \in {"y50", "y72", "done"}
            /\ events # <<>>
            /\ Last(events) = Failure
            /\ Len(SelectSeq(events, IsFailure)) = 1
            /\ SelectSeq(events, IsCompletion) = <<>>

\* An error line with a completed line behind it, the sequence advanced to
\* its end.
C4_Witness ==
    /\ RanToEnd
    /\ pos = 1 /\ Len(stream) >= 2
    /\ HasStatus(stream[1], "error")
    /\ HasStatus(stream[2], "completed")
    /\ events = <<Failure>>

----------------------------------------------------------------------------
(* C5 *)

\* C5: a non-blank line that is not UTF-8 or not JSON is the last line taken
\* from the body; the events are the Deltas of the lines before it followed by
\* exactly one Failure, and the generator never goes back to reading.
C5_DecodeFailureEndsSequence ==
    \A k \in 1..pos :
        stream[k].raw = "bad" =>
            /\ k = pos
            /\ pc \in {"y72", "done"}
            /\ events = Append(DeltasOf(SubSeq(stream, 1, k - 1)), Failure)

\* A Delta, then an undecodable line with a further line behind it, the
\* sequence advanced to its end.
C5_Witness ==
    /\ RanToEnd
    /\ pos = 2 /\ Len(stream) = 3
    /\ stream[2].raw = "bad"
    /\ Len(events) = 2
    /\ IsDelta(events[1])

----------------------------------------------------------------------------
(* C6 *)

\* C6: when requests.post raises, or the server answers with a non-success
\* status, the generator is finished with no event delivered and no exception
\* let out to the caller.
C6_TransportFailureIsSilent ==
    http \in {"exception", "bad_status"} =>
        /\ pc = "done"
        /\ events = <<>>
        /\ raised = NoException
        /\ response # "open"

\* The server has answered a request with a non-success status.
C6_Witness == http = "bad_status" /\ Len(sent) = 1 /\ pc = "done"

----------------------------------------------------------------------------
(* C7 *)

\* C7: every close() of a generator suspended after delivering an event
\* leaves the response released and is answered with no further value.
C7_CloseReleasesResponse ==
    \A i \in DOMAIN closeLog :
        closeLog[i].at \in Yields =>
            /\ closeLog[i].response = "closed"
            /\ closeLog[i].yielded = <<>>
            /\ closeLog[i].result = "ok"

----------------------------------------------------------------------------
(* C8 *)

\* C8 as stated: a call advanced to its end has issued exactly one request.
C8_AsStated == (pc = "done" /\ closeLog = <<>>) => Len(sent) = 1

\* C8, amended: a call issues at most one request, however far it is
\* advanced; once advanced it has issued exactly one when its preconditions
\* hold, and none when they do not.
C8_AtMostOneRequest ==
    /\ Len(sent) <= 1
    /\ pc # "none" =>
        /\ (Advanced /\ ~PreconditionViolated) => Len(sent) = 1
        /\ PreconditionViolated => Len(sent) = 0

\* A call has delivered two events and ended, with its one request issued.
C8_Witness == RanToEnd /\ Len(events) = 2 /\ Len(sent) = 1

----------------------------------------------------------------------------
(* C9 *)

\* C9: every payload sent has one session shape: type "new" with model_id and
\* no session_id key when session_id is absent, type "resume" with session_id
\* and no model_id key when it is present, also when model_id was given too.
C9_PayloadShape ==
    \A i \in DOMAIN sent :
        LET p == sent[i].json
        IN  IF args.session_id = None
            THEN /\ p.type = "new"
                 /\ p.model_id = args.model_id /\ p.model_id # Missing
                 /\ p.session_id = Missing
            ELSE /\ p.type = "resume"
                 /\ p.session_id = args.session_id /\ p.session_id # Missing
                 /\ p.model_id = Missing

\* A request went out for a call given both session_id and model_id.
C9_Witness ==
    /\ Len(sent) = 1
    /\ args.session_id = "sid" /\ args.model_id = "mid"

----------------------------------------------------------------------------
(* C10 *)

\* C10: the i-th Delta delivered has the text and image of the delta object
\* of the i-th generating line taken, None for a key that object lacks:
\* nothing of an earlier line or of the img argument shows in it.
C10_DeltaFromOwnLine ==
    LET gen == SelectSeq(Consumed, IsGeneratingLine)
    IN  \A i \in 1..Len(events) :
            IsDelta(events[i]) =>
                /\ i <= Len(gen)
                /\ events[i].text = KeyOrAbsent(gen[i].delta.text)
                /\ events[i].image = KeyOrAbsent(gen[i].delta.image)
                /\ (gen[i].delta.text = Missing => events[i].text = None)
                /\ (gen[i].delta.image = Missing => events[i].image = None)

\* The call was given an image; a text-only line, an image-only line and a
\* text-only line again gave three Deltas, none with a value of its neighbour.
C10_Witness ==
    /\ Len(events) = 3
    /\ args.img = "pic"
    /\ \A i \in 1..3 : IsDelta(events[i])
    /\ events[1].text = "hi" /\ events[1].image = None
    /\ events[2].text = None /\ events[2].image = "im"
    /\ events[3].text = "hi" /\ events[3].image = None

----------------------------------------------------------------------------
(* C11 *)

\* C11: when the for loop reaches the end of the body, no line taken having
\* had status completed or error and the decoder having failed on none, the
\* generator is finished with one Delta per generating line as its events:
\* no Completion and no Failure is added for the end of the body.
C11_ExhaustionAddsNothing ==
    (/\ RanToEnd
     /\ pos = Len(stream)
     /\ \A k \in 1..pos : ~Stops(stream[k])) =>
        /\ events = DeltasOf(stream)
        /\ SelectSeq(events, IsCompletion) = <<>>
        /\ SelectSeq(events, IsFailure) = <<>>
        /\ response = "closed"
        /\ raised = NoException

\* A body of a Delta line, a line of unknown status and a Delta line has been
\* read to its end and the generator is finished.
C11_Witness ==
    /\ RanToEnd
    /\ pos = 3 /\ Len(stream) = 3
    /\ \A k \in 1..3 : ~Stops(stream[k])
    /\ HasStatus(stream[2], "queued")
    /\ Len(events) = 2

----------------------------------------------------------------------------
(* C12 *)

\* C12: a call made with the arguments of the call before it, on the same
\* client, finds api_key, base_url and headers as that call found them, and
\* the request it sends has the url, payload and headers of the request that
\* call sent; once advanced it sends one whenever that call sent one,
\* whatever that call read from its response and wherever it was left.
C12_SameArgsSameRequest ==
    \A i \in DOMAIN previous :
        /\ previous[i].client = <<api_key, base_url, headers>>
        /\ headers = Headers(api_key)
        /\ previous[i].args = args =>
              /\ (previous[i].sent # <<>> /\ Advanced) => sent # <<>>
              /\ (previous[i].sent # <<>> /\ sent # <<>>) =>
                    /\ sent[1].json = previous[i].sent[1].json
                    /\ sent[1].headers = previous[i].sent[1].headers
                    /\ sent[1].url = previous[i].sent[1].url

\* The second of two calls given an image and a session has sent its request
\* and delivered an event; the first one had sent its request too.
C12_Witness ==
    /\ Len(calls) = 2
    /\ previous # <<>>
    /\ previous[1].sent # <<>>
    /\ sent # <<>>
    /\ args.img = "pic" /\ args.session_id = "sid"
    /\ events # <<>>

----------------------------------------------------------------------------
(* C13 *)

\* A JSON object whose status is none of the five the code tests for, or
\* which has no status.
IsUnknownLine(l) ==
    /\ l.raw = "obj"
    /\ l.status \notin {"error", "initialized", "resumed", "generating", "completed"}

\* What a line that gives an event gives.
GivesEvent(l) == IsGeneratingLine(l) \/ Stops(l)
EventOfLine(l) ==
    IF HasStatus(l, "completed") THEN Completion(l.cost, l.cost_per_mtk)
    ELSE IF IsGeneratingLine(l) /\ l.delta.kind = "object" THEN DeltaOfLine(l)
    ELSE Failure

\* C13: a well-formed line of unknown or missing status adds no event and
\* does not end the sequence: right after it the generator is reading on (or
\* found the body at its end, or the transport broken), and a later line that
\* gives an event gives it as usual.
C13_UnknownStatusSkipped ==
    \A k \in 1..pos :
        IsUnknownLine(stream[k]) =>
            /\ k = pos =>
                  /\ pc \in {"loop", "done"}
                  /\ events = DeltasOf(SubSeq(stream, 1, k - 1))
                  /\ (pc = "done" /\ http = "ok") => pos = Len(stream)
            /\ (k < pos /\ GivesEvent(stream[pos])) =>
                  /\ events # <<>>
                  /\ Last(events) = EventOfLine(stream[pos])

\* A line without status, a line of unknown status and a generating line
\* have been taken, and the one event is the Delta of the third.
C13_Witness ==
    /\ pos = 3
    /\ stream[1] = StatusLine(Missing)
    /\ stream[2] = StatusLine("queued")
    /\ IsGeneratingLine(stream[3])
    /\ events = <<DeltaOfLine(stream[3])>>

----------------------------------------------------------------------------
(* C14 *)

\* C14: when iter_lines raises after k events, the generator is finished
\* with those k events, all of them Deltas of the lines taken: no Failure is
\* added, no exception reaches the caller and the response is closed, as
\* after a body that ended there.
C14_BrokenBodyTruncates ==
    http = "broken" =>
        /\ pc = "done"
        /\ raised = NoException
        /\ response = "closed"
        /\ events = DeltasOf(Consumed)
        /\ SelectSeq(events, IsFailure) = <<>>
        /\ SelectSeq(events, IsCompletion) = <<>>

\* The transport broke after two Deltas, with a line of the body still unread.
C14_Witness ==
    /\ http = "broken"
    /\ Len(events) = 2
    /\ pos < Len(stream)

----------------------------------------------------------------------------
(* C15 *)

\* C15: the events delivered are Deltas followed by at most one Completion
\* or Failure, which is the last event; and a finished generator stays
\* finished and delivers nothing more.
C15_OneTerminalEventLast ==
    /\ [](\A i \in 1..(Len(events) - 1) : IsDelta(events[i]))
    /\ [][pc = "done" => (pc' = "done" /\ events' = events)]_vars

\* Two Deltas and a Completion have been delivered and the generator is
\* finished.
C15_Witness ==
    /\ RanToEnd
    /\ Len(events) = 3
    /\ IsDelta(events[1]) /\ IsDelta(events[2]) /\ IsCompletion(events[3])

----------------------------------------------------------------------------
(* C16 *)

\* C16: a generating line whose delta is missing or null is the last line
\* taken from the body; the events are the Deltas of the lines before it
\* followed by exactly one Failure (no Delta for that line, and it is not
\* skipped), and the generator never goes back to reading.
C16_NoDeltaIsFailure ==
    \A k \in 1..pos :
        (IsGeneratingLine(stream[k]) /\ stream[k].delta.kind = "null") =>
            /\ k = pos
            /\ pc \in {"y72", "done"}
            /\ events = Append(DeltasOf(SubSeq(stream, 1, k - 1)), Failure)

\* A Delta, then a generating line without delta with a further generating
\* line behind it, the sequence advanced to its end.
C16_Witness ==
    /\ RanToEnd
    /\ pos = 2 /\ Len(stream) = 3
    /\ IsGeneratingLine(stream[2]) /\ stream[2].delta.kind = "null"
    /\ IsGeneratingLine(stream[3])
    /\ Len(events) = 2 /\ IsDelta(events[1]) /\ IsFailure(events[2])

====
